---- MODULE Spec2Model ----
(***************************************************************************)
(* Model of AndreiHan/Sync: folder_sync.py (class FolderSync).             *)
(*                                                                         *)
(* Path strings are sequences of one-character strings, so that            *)
(* str.replace, os.path.join, dirname and basename act on characters as    *)
(* they do in Python.  The filesystem is a function from the paths that    *)
(* exist to their node: a directory, or a regular file with its bytes.     *)
(* Symbolic links and special files are not modelled.                      *)
(***************************************************************************)
EXTENDS Integers, Sequences, FiniteSets, TLC

VARIABLES
    fs,             \* the filesystem: existing path -> node
    pc,             \* position of the sync loop / of the comparison under test
    equal,          \* result of the last comparison
    source_dirs,    \* locals of __start_sync (enumerations of one pass)
    source_files,
    backup_dirs,
    backup_files,
    done,           \* entries of the set being iterated that were processed
    status,         \* status flags of __sync_file_list / __sync_dir_list
    runs,           \* number of __start_sync calls begun (saturates at MaxRuns)
    mutated,        \* the pass in progress (or last finished) changed fs
    change,         \* SpecTrees: the single change applied to the copy
    roots,          \* the two folder arguments handed to FolderSync
    faults,         \* operations the environment may make fail (fixed per run)
    injected,       \* comparison on its own: the fault injected into it
    failed          \* per phase: an operation attempted in this pass failed

vars == <<fs, pc, equal, source_dirs, source_files, backup_dirs, backup_files,
          done, status, runs, mutated, change, roots, faults, injected, failed>>

(***************************************************************************)
(* Bounds.                                                                 *)
(***************************************************************************)
\* Most entries (files and directories) in an initial source or backup tree.
MaxEntries == 2
\* runs counts 0 .. MaxRuns, the last value meaning "MaxRuns or more".
MaxRuns == 2
\* Longest file (in bytes) of the file-comparison specification.
MaxLen == 5
\* Bytes read per chunk: the code reads 4096, the model scales it down so
\* that files of up to three chunks are enumerable.
ChunkSize == 2

\* Byte values of the file-comparison specification.
Bytes == {0, 1}
\* File contents of the tree specifications.
Contents == {<<0>>, <<1>>}
\* Entry names of the initial trees.  "s" and "b" make the root strings
\* "/s" and "/b" occur again inside a relative path.
Names == {"a", "b", "s"}

(***************************************************************************)
(* The two roots handed to FolderSync.__init__.                            *)
(***************************************************************************)
source_folder == roots.source
backup_folder == roots.backup

\* The roots of all specifications but SpecRoots: "/s" and "/b".
PlainRoots == [source |-> <<"/", "s">>, backup |-> <<"/", "b">>]

Dir == [kind |-> "dir", data |-> <<>>]
File(d) == [kind |-> "file", data |-> d]

Min(a, b) == IF a < b THEN a ELSE b

(***************************************************************************)
(* String and path functions.                                              *)
(***************************************************************************)
IsPrefix(p, s) == Len(p) <= Len(s) /\ SubSeq(s, 1, Len(p)) = p

\* str.replace(old, new): every non-overlapping occurrence, left to right.
RECURSIVE StrReplace(_, _, _)
StrReplace(s, old, new) ==
    IF Len(s) < Len(old) THEN s
    ELSE IF IsPrefix(old, s)
         THEN new \o StrReplace(SubSeq(s, Len(old) + 1, Len(s)), old, new)
         ELSE <<s[1]>> \o StrReplace(Tail(s), old, new)

\* os.path.join(root, name): a separator is added unless root ends in one.
Join(root, name) ==
    IF root[Len(root)] = "/" THEN root \o name ELSE root \o <<"/">> \o name

\* Index of the last "/" of an absolute path.
LastSlash(p) == CHOOSE i \in 1..Len(p) :
                    p[i] = "/" /\ \A j \in (i + 1)..Len(p) : p[j] # "/"

\* os.path.dirname and os.path.basename.
Dirname(p) == IF LastSlash(p) = 1 THEN <<"/">> ELSE SubSeq(p, 1, LastSlash(p) - 1)
Basename(p) == SubSeq(p, LastSlash(p) + 1, Len(p))

\* q lies strictly below directory p.
Below(p, q) == IsPrefix(p \o <<"/">>, q)

(***************************************************************************)
(* Filesystem queries and operations (os, os.path, shutil) on a value f.   *)
(***************************************************************************)
\* Path resolution by the operating system: repeated separators count as
\* one and a trailing separator is ignored.  f is keyed by resolved paths.
\* (Arguments are bound as values, the singleton sets, so that each is
\* computed once.)
RECURSIVE Collapse(_)
Collapse(p) ==
    IF Len(p) <= 1 THEN p
    ELSE IF p[1] = "/" /\ p[2] = "/" THEN Collapse(Tail(p))
    ELSE <<p[1]>> \o Collapse(Tail(p))

Norm(p) ==
    CHOOSE n \in {IF Len(c) > 1 /\ c[Len(c)] = "/" THEN SubSeq(c, 1, Len(c) - 1) ELSE c :
                     c \in {Collapse(p)}} : TRUE

Resolve(f, p) == CHOOSE r \in {IF q \in DOMAIN f THEN q ELSE Norm(q) : q \in {p}} : TRUE

\* os.path.isdir and os.path.isfile; "/" is always a directory.
IsDir(f, p) ==
    \E g \in {f} : \E q \in {Resolve(g, p)} :
        q = <<"/">> \/ (q \in DOMAIN g /\ g[q].kind = "dir")
IsFile(f, p) ==
    \E g \in {f} : \E q \in {Resolve(g, p)} : q \in DOMAIN g /\ g[q].kind = "file"

\* os.listdir: the names of the immediate entries.
ListDir(f, p) ==
    UNION {{Basename(r) : r \in {x \in DOMAIN f : Below(q, x) /\ Dirname(x) = q}} :
              q \in {Resolve(f, p)}}

\* os.remove of an existing file.
Remove(f, p) == [q \in DOMAIN f \ {p} |-> f[q]]

\* The proper ancestors of p and p itself, "/" excluded.
Ancestors(p) == {SubSeq(p, 1, i - 1) : i \in {j \in 2..Len(p) : p[j] = "/"}} \cup {p}

\* os.makedirs(p) succeeds when p does not exist and no ancestor is a file.
MakedirsOk(f, p) == p \notin DOMAIN f /\ \A a \in Ancestors(p) : ~IsFile(f, a)
Makedirs(f, p) == [q \in DOMAIN f \cup Ancestors(p) |-> IF q \in DOMAIN f THEN f[q] ELSE Dir]

\* shutil.copy(src, dst): into dst when dst is a directory, else onto dst.
CopyTarget(f, src, dst) == IF IsDir(f, dst) THEN Join(dst, Basename(src)) ELSE dst
CopyOk(f, src, dst) ==
    LET t == CopyTarget(f, src, dst)
    IN  IsFile(f, src) /\ t # src /\ ~IsDir(f, t) /\ IsDir(f, Dirname(t))
Copy(f, src, dst) ==
    LET t == CopyTarget(f, src, dst)
    IN  [q \in DOMAIN f \cup {t} |-> IF q = t THEN File(f[src].data) ELSE f[q]]

\* shutil.rmtree(p): p and everything below it.
Rmtree(f, p) == [q \in {r \in DOMAIN f : r # p /\ ~Below(p, r)} |-> f[q]]

(***************************************************************************)
(* HashComparator.                                                         *)
(***************************************************************************)
\* iter(lambda: f.read(4096), b""): the chunks read until the first empty read.
NumChunks(data) == (Len(data) + ChunkSize - 1) \div ChunkSize
Chunk(data, i) == SubSeq(data, (i - 1) * ChunkSize + 1, Min(i * ChunkSize, Len(data)))

\* hashlib.md5: update absorbs the chunk; the digest is taken as collision
\* free, so it is represented by the bytes absorbed so far.
Md5Update(md5, chunk) == md5 \o chunk
Hexdigest(md5) == md5

\* The zip loop of __compare_progressive_file_hash from paired chunk i on.
RECURSIVE HashLoop(_, _, _, _, _)
HashLoop(first_file, second_file, i, first_md5, second_md5) ==
    IF i > Min(NumChunks(first_file), NumChunks(second_file))
    THEN Hexdigest(first_md5) = Hexdigest(second_md5)
    ELSE LET m1 == Md5Update(first_md5, Chunk(first_file, i))
             m2 == Md5Update(second_md5, Chunk(second_file, i))
         IN  IF Hexdigest(m1) # Hexdigest(m2) THEN FALSE
             ELSE HashLoop(first_file, second_file, i + 1, m1, m2)

\* A comparison that hashes each file as a whole instead of pairing chunks.
CompareWholeFileHash(first_file, second_file) ==
    Hexdigest(Md5Update(<<>>, first_file)) = Hexdigest(Md5Update(<<>>, second_file))

CompareProgressiveFileHash(first_file, second_file) ==
    HashLoop(first_file, second_file, 1, <<>>, <<>>)

RECURSIVE CompareFileHashes(_, _, _)
RECURSIVE CompareFolderHashes(_, _, _)

\* __compare_file_hashes without the size pre-check of lines 81-83.
CompareFileHashesNoSize(f, file1, file2) ==
    IF IsDir(f, file1) \/ IsDir(f, file2) THEN CompareFolderHashes(f, file1, file2)
    ELSE IF ~IsFile(f, file1) \/ ~IsFile(f, file2) THEN FALSE
    ELSE CompareProgressiveFileHash(f[file1].data, f[file2].data)

\* __compare_folder_hashes without the entry-count test of lines 106-107.
CompareFolderHashesNoCount(f, first_folder, second_folder) ==
    IF ~IsDir(f, first_folder) THEN FALSE
    ELSE IF ~IsDir(f, second_folder) THEN FALSE
    ELSE \A file \in ListDir(f, first_folder) :
             /\ file \in ListDir(f, second_folder)
             /\ CompareFileHashes(f, Join(first_folder, file), Join(second_folder, file))

CompareFileHashes(f, file1, file2) ==
    IF IsDir(f, file1) \/ IsDir(f, file2) THEN CompareFolderHashes(f, file1, file2)
    ELSE IF ~IsFile(f, file1) \/ ~IsFile(f, file2) THEN FALSE
    ELSE IF Len(f[file1].data) # Len(f[file2].data) THEN FALSE
    ELSE CompareProgressiveFileHash(f[file1].data, f[file2].data)

CompareFolderHashes(f, first_folder, second_folder) ==
    IF ~IsDir(f, first_folder) THEN FALSE
    ELSE IF ~IsDir(f, second_folder) THEN FALSE
    ELSE LET first_dirs == ListDir(f, first_folder)
             second_dirs == ListDir(f, second_folder)
         IN  IF Cardinality(first_dirs) # Cardinality(second_dirs) THEN FALSE
             ELSE \A file \in first_dirs :
                      /\ file \in second_dirs
                      /\ CompareFileHashes(f, Join(first_folder, file),
                                           Join(second_folder, file))

(***************************************************************************)
(* The comparators under an I/O fault.  flt names the operation that the   *)
(* environment makes fail with OSError if the call reaches it: "getsize",  *)
(* "open" (open or read of either file), "listdir"; "none" for no fault.   *)
(* The outcome tells whether the call returned, and what, or raised.       *)
(***************************************************************************)
Returns(v) == [raised |-> FALSE, value |-> v]
Raises == [raised |-> TRUE, value |-> FALSE]

\* __compare_folder_hashes: the os.listdir calls of lines 104-105 stand in
\* no try block.
CompareFolderHashesIO(f, first_folder, second_folder, flt) ==
    IF ~IsDir(f, first_folder) THEN Returns(FALSE)
    ELSE IF ~IsDir(f, second_folder) THEN Returns(FALSE)
    ELSE IF flt = "listdir" THEN Raises
    ELSE Returns(CompareFolderHashes(f, first_folder, second_folder))

\* __compare_file_hashes without the try/except of lines 85-92 around open
\* and read.
CompareFileHashesIOUncaught(f, file1, file2, flt) ==
    IF IsDir(f, file1) \/ IsDir(f, file2) THEN CompareFolderHashesIO(f, file1, file2, flt)
    ELSE IF ~IsFile(f, file1) \/ ~IsFile(f, file2) THEN Returns(FALSE)
    ELSE IF flt # "getsize" /\ Len(f[file1].data) # Len(f[file2].data) THEN Returns(FALSE)
    ELSE IF flt = "open" THEN Raises
    ELSE Returns(CompareProgressiveFileHash(f[file1].data, f[file2].data))

\* __compare_file_hashes: a failing getsize is logged and the size test
\* skipped (lines 80-84); a failing open or read returns False (lines 85-92).
CompareFileHashesIO(f, file1, file2, flt) ==
    IF IsDir(f, file1) \/ IsDir(f, file2) THEN CompareFolderHashesIO(f, file1, file2, flt)
    ELSE IF ~IsFile(f, file1) \/ ~IsFile(f, file2) THEN Returns(FALSE)
    ELSE IF flt # "getsize" /\ Len(f[file1].data) # Len(f[file2].data) THEN Returns(FALSE)
    ELSE IF flt = "open" THEN Returns(FALSE)
    ELSE Returns(CompareProgressiveFileHash(f[file1].data, f[file2].data))

(***************************************************************************)
(* TreeEnumerator: get_folder_and_files (os.walk).                         *)
(***************************************************************************)
WalkDirs(f, path) ==
    UNION {{q \in DOMAIN f : Below(top, q) /\ f[q].kind = "dir"} : top \in {Resolve(f, path)}}
WalkFiles(f, path) ==
    UNION {{q \in DOMAIN f : Below(top, q) /\ f[q].kind = "file"} : top \in {Resolve(f, path)}}

(***************************************************************************)
(* Reconciler.                                                             *)
(***************************************************************************)
\* file.replace(self.source_folder, self.backup_folder) and its converse.
BackupPath(path) == StrReplace(path, source_folder, backup_folder)
SourcePath(path) == StrReplace(path, backup_folder, source_folder)

\* What one loop iteration leaves and reports: the filesystem, whether it
\* kept the phase's status (ok), whether an operation it attempted failed,
\* and whether an exception left the loop.  flt names the operation that the
\* environment makes fail with OSError if the iteration reaches it ("none":
\* no fault); an operation made to fail has no effect on the filesystem.
Kept(f) == [fs |-> f, ok |-> TRUE, failed |-> FALSE, raised |-> FALSE]

\* __sync_two_files, lines 123-127: an existing backup file is removed
\* first; a failure is logged and changes nothing else.
RemoveOld(f, backup, flt) ==
    IF ~IsFile(f, backup) THEN [fs |-> f, failed |-> FALSE]
    ELSE IF flt = "remove" THEN [fs |-> f, failed |-> TRUE]
    ELSE [fs |-> Remove(f, backup), failed |-> FALSE]

\* __sync_two_files, lines 129-136: the parent directory is created when
\* missing; a failure clears status.
MakeParent(r, backup_dir, flt) ==
    IF IsDir(r.fs, backup_dir) THEN [fs |-> r.fs, ok |-> TRUE, failed |-> r.failed]
    ELSE IF flt # "makedirs" /\ MakedirsOk(r.fs, backup_dir)
         THEN [fs |-> Makedirs(r.fs, backup_dir), ok |-> TRUE, failed |-> r.failed]
         ELSE [fs |-> r.fs, ok |-> FALSE, failed |-> TRUE]

\* __sync_two_files, lines 137-144: the copy; a failure returns False.
CopyFile(m, source, backup, flt) ==
    IF flt # "copy" /\ CopyOk(m.fs, source, backup)
    THEN [fs |-> Copy(m.fs, source, backup), ok |-> m.ok, failed |-> m.failed,
          raised |-> FALSE]
    ELSE [fs |-> m.fs, ok |-> FALSE, failed |-> TRUE, raised |-> FALSE]

\* __sync_two_files: the filesystem it leaves and the value it returns.
\* The three steps run in sequence; each intermediate result is bound as a
\* value (the singleton sets) so that it is computed once.
SyncTwoFiles(f, source, backup, flt) ==
    IF ~IsFile(f, source) THEN [Kept(f) EXCEPT !.ok = FALSE]
    ELSE CHOOSE r \in {CopyFile(m, source, backup, flt) :
                          m \in {MakeParent(r1, Dirname(backup), flt) :
                                    r1 \in {RemoveOld(f, backup, flt)}}} : TRUE

\* One iteration of the first loop of __sync_file_list.
SyncSourceFileStep(f, file, flt) ==
    LET backup_file == BackupPath(file)
        same == CompareFileHashesIO(f, file, backup_file, flt)
    IN  IF same.raised THEN [Kept(f) EXCEPT !.raised = TRUE]
        ELSE IF same.value THEN Kept(f)
        ELSE SyncTwoFiles(f, file, backup_file, flt)

\* The second loop of __sync_file_list without the try/except of lines
\* 162-167 around os.remove.
RemoveBackupFileStepUncaught(f, file, flt) ==
    IF IsFile(f, SourcePath(file)) THEN Kept(f)
    ELSE IF ~IsFile(f, file) THEN Kept(f)
    ELSE IF flt = "remove" THEN [Kept(f) EXCEPT !.failed = TRUE, !.raised = TRUE]
    ELSE Kept(Remove(f, file))

\* One iteration of the second loop of __sync_file_list.
RemoveBackupFileStep(f, file, flt) ==
    IF IsFile(f, SourcePath(file)) THEN Kept(f)
    ELSE IF ~IsFile(f, file) THEN Kept(f)
    ELSE IF flt = "remove" THEN [Kept(f) EXCEPT !.ok = FALSE, !.failed = TRUE]
    ELSE Kept(Remove(f, file))

\* One iteration of the first loop of __sync_dir_list (with __make_dirs):
\* a failing listdir skips the entry, a failing makedirs is only logged.
MakeSourceDirStep(f, current_dir, flt) ==
    LET backup_dir == BackupPath(current_dir)
    IN  IF ~IsDir(f, current_dir) \/ flt = "listdir" THEN Kept(f)
        ELSE IF ListDir(f, current_dir) # {} \/ IsDir(f, backup_dir) THEN Kept(f)
        ELSE IF flt # "makedirs" /\ MakedirsOk(f, backup_dir)
             THEN Kept(Makedirs(f, backup_dir))
             ELSE [Kept(f) EXCEPT !.failed = TRUE]

\* One iteration of the second loop of __sync_dir_list.  A removal that
\* onerror could not repair raises OSError, which clears status.
RemoveBackupDirStep(f, current_dir, flt) ==
    IF IsDir(f, SourcePath(current_dir)) THEN Kept(f)
    ELSE IF ~IsDir(f, current_dir) THEN Kept(f)
    ELSE IF flt = "rmtree" THEN [Kept(f) EXCEPT !.ok = FALSE, !.failed = TRUE]
    ELSE Kept(Rmtree(f, current_dir))

(***************************************************************************)
(* Initial trees: every well-formed tree of at most MaxEntries entries     *)
(* with names from Names, at most two levels deep.  A tree maps relative   *)
(* paths ("/a", "/a/s") to nodes.                                          *)
(***************************************************************************)
RelPaths == {<<"/", n>> : n \in Names} \cup {<<"/", n, "/", m>> : n, m \in Names}
Nodes == {Dir} \cup {File(c) : c \in Contents}

WellFormed(t) ==
    \A p \in DOMAIN t : Len(p) > 2 => (Dirname(p) \in DOMAIN t /\ t[Dirname(p)].kind = "dir")

Trees == {t \in UNION {[D -> Nodes] : D \in {E \in SUBSET RelPaths : Cardinality(E) <= MaxEntries}} :
              WellFormed(t)}

\* The filesystem holding tree s under the source root and tree b under the
\* backup root (main.get_args has checked that both roots are directories).
MkFs(s, b) ==
    CHOOSE f \in {[p \in {sroot, broot} \cup {sroot \o r : r \in DOMAIN s}
                                        \cup {broot \o r : r \in DOMAIN b} |->
                      IF p \in {sroot, broot} THEN Dir
                      ELSE IF Below(sroot, p)
                           THEN s[SubSeq(p, Len(sroot) + 1, Len(p))]
                           ELSE b[SubSeq(p, Len(broot) + 1, Len(p))]] :
                  sroot \in {Norm(source_folder)}, broot \in {Norm(backup_folder)}} : TRUE

(***************************************************************************)
(* SyncLoop: FolderSync.sync and __start_sync, one action per step.        *)
(***************************************************************************)
Init ==
    /\ roots = PlainRoots
    /\ \E s \in Trees, b \in Trees : fs = MkFs(s, b)
    /\ pc = "check"
    /\ equal = FALSE
    /\ source_dirs = {} /\ source_files = {}
    /\ backup_dirs = {} /\ backup_files = {}
    /\ done = {}
    /\ status = [files |-> TRUE, dirs |-> TRUE]
    /\ runs = 0
    /\ mutated = FALSE
    /\ change = "none"
    /\ faults = {}
    /\ injected = "none"
    /\ failed = [files |-> FALSE, dirs |-> FALSE]

\* The faults of S that the environment may inject, and no fault.
FaultsOf(S) == (faults \cap S) \cup {"none"}

\* sync: the tree-equality check on the two roots and the branch on it.  No
\* try block surrounds the call: an exception it raises ends sync().
Check ==
    /\ pc = "check"
    /\ \E flt \in FaultsOf({"listdir"}) :
          \E c \in {CompareFolderHashesIO(fs, source_folder, backup_folder, flt)} :
              /\ equal' = IF c.raised THEN equal ELSE c.value
              /\ pc' = IF c.raised THEN "crashed"
                       ELSE IF c.value THEN "sleep" ELSE "start"
    /\ UNCHANGED <<fs, source_dirs, source_files, backup_dirs, backup_files,
                   done, status, runs, mutated, change, roots, faults, injected, failed>>

\* sync without the continue of line 217: the sleep falls through into
\* __start_sync.
SleepNoContinue ==
    /\ pc = "sleep"
    /\ pc' = "start"
    /\ UNCHANGED <<fs, equal, source_dirs, source_files, backup_dirs, backup_files,
                   done, status, runs, mutated, change, roots, faults, injected, failed>>

\* sync: time.sleep(backup_interval * 60), then back to the check.
Sleep ==
    /\ pc = "sleep"
    /\ pc' = "check"
    /\ UNCHANGED <<fs, equal, source_dirs, source_files, backup_dirs, backup_files,
                   done, status, runs, mutated, change, roots, faults, injected, failed>>

\* __start_sync: both enumerations, then into the file phase.
StartSync ==
    /\ pc = "start"
    /\ source_dirs' = WalkDirs(fs, source_folder)
    /\ source_files' = WalkFiles(fs, source_folder)
    /\ backup_dirs' = WalkDirs(fs, backup_folder)
    /\ backup_files' = WalkFiles(fs, backup_folder)
    /\ done' = {}
    /\ status' = [files |-> TRUE, dirs |-> TRUE]
    /\ runs' = Min(runs + 1, MaxRuns)
    /\ mutated' = FALSE
    /\ failed' = [files |-> FALSE, dirs |-> FALSE]
    /\ pc' = "source_files"
    /\ UNCHANGED <<fs, equal, change, roots, faults, injected>>

\* __sync_file_list, first loop: one source file, in any order.
SyncSourceFile ==
    /\ pc = "source_files"
    /\ \E file \in source_files \ done,
          flt \in FaultsOf({"getsize", "open", "listdir", "remove", "makedirs", "copy"}) :
          \E r \in {SyncSourceFileStep(fs, file, flt)} :
              /\ fs' = r.fs
              /\ status' = [status EXCEPT !.files = @ /\ r.ok]
              /\ failed' = [failed EXCEPT !.files = @ \/ r.failed]
              /\ done' = done \cup {file}
              /\ mutated' = (mutated \/ r.fs # fs)
              /\ pc' = IF r.raised THEN "crashed" ELSE pc
    /\ UNCHANGED <<equal, source_dirs, source_files, backup_dirs, backup_files,
                   runs, change, roots, faults, injected>>

\* __sync_file_list: the first loop is exhausted.
EndSourceFiles ==
    /\ pc = "source_files" /\ done = source_files
    /\ pc' = "backup_files" /\ done' = {}
    /\ UNCHANGED <<fs, equal, source_dirs, source_files, backup_dirs, backup_files,
                   status, runs, mutated, change, roots, faults, injected, failed>>

\* __sync_file_list, second loop: one backup file, in any order.
RemoveBackupFile ==
    /\ pc = "backup_files"
    /\ \E file \in backup_files \ done, flt \in FaultsOf({"remove"}) :
          \E r \in {RemoveBackupFileStep(fs, file, flt)} :
              /\ fs' = r.fs
              /\ status' = [status EXCEPT !.files = @ /\ r.ok]
              /\ failed' = [failed EXCEPT !.files = @ \/ r.failed]
              /\ done' = done \cup {file}
              /\ mutated' = (mutated \/ r.fs # fs)
              /\ pc' = IF r.raised THEN "crashed" ELSE pc
    /\ UNCHANGED <<equal, source_dirs, source_files, backup_dirs, backup_files,
                   runs, change, roots, faults, injected>>

\* __sync_file_list returns; __sync_dir_list begins.
EndBackupFiles ==
    /\ pc = "backup_files" /\ done = backup_files
    /\ pc' = "source_dirs" /\ done' = {}
    /\ UNCHANGED <<fs, equal, source_dirs, source_files, backup_dirs, backup_files,
                   status, runs, mutated, change, roots, faults, injected, failed>>

\* __sync_dir_list, first loop: one source directory, in any order.
MakeSourceDir ==
    /\ pc = "source_dirs"
    /\ \E current_dir \in source_dirs \ done, flt \in FaultsOf({"listdir", "makedirs"}) :
          \E r \in {MakeSourceDirStep(fs, current_dir, flt)} :
              /\ fs' = r.fs
              /\ status' = [status EXCEPT !.dirs = @ /\ r.ok]
              /\ failed' = [failed EXCEPT !.dirs = @ \/ r.failed]
              /\ done' = done \cup {current_dir}
              /\ mutated' = (mutated \/ r.fs # fs)
              /\ pc' = IF r.raised THEN "crashed" ELSE pc
    /\ UNCHANGED <<equal, source_dirs, source_files, backup_dirs, backup_files,
                   runs, change, roots, faults, injected>>

\* __sync_dir_list: the first loop is exhausted.
EndSourceDirs ==
    /\ pc = "source_dirs" /\ done = source_dirs
    /\ pc' = "backup_dirs" /\ done' = {}
    /\ UNCHANGED <<fs, equal, source_dirs, source_files, backup_dirs, backup_files,
                   status, runs, mutated, change, roots, faults, injected, failed>>

\* __sync_dir_list, second loop: one backup directory, in any order.
RemoveBackupDir ==
    /\ pc = "backup_dirs"
    /\ \E current_dir \in backup_dirs \ done, flt \in FaultsOf({"rmtree"}) :
          \E r \in {RemoveBackupDirStep(fs, current_dir, flt)} :
              /\ fs' = r.fs
              /\ status' = [status EXCEPT !.dirs = @ /\ r.ok]
              /\ failed' = [failed EXCEPT !.dirs = @ \/ r.failed]
              /\ done' = done \cup {current_dir}
              /\ mutated' = (mutated \/ r.fs # fs)
              /\ pc' = IF r.raised THEN "crashed" ELSE pc
    /\ UNCHANGED <<equal, source_dirs, source_files, backup_dirs, backup_files,
                   runs, change, roots, faults, injected>>

\* __sync_dir_list and __start_sync return: back to the check, no sleep.
EndSync ==
    /\ pc = "backup_dirs" /\ done = backup_dirs
    /\ pc' = "check" /\ done' = {}
    /\ UNCHANGED <<fs, equal, source_dirs, source_files, backup_dirs, backup_files,
                   status, runs, mutated, change, roots, faults, injected, failed>>

Next ==
    \/ Check \/ Sleep \/ StartSync
    \/ SyncSourceFile \/ EndSourceFiles
    \/ RemoveBackupFile \/ EndBackupFiles
    \/ MakeSourceDir \/ EndSourceDirs
    \/ RemoveBackupDir \/ EndSync

Spec == Init /\ [][Next]_vars

\* The loop is the only thread and never blocks except in sleep, which
\* returns: some step is always taken.
FairSpec == Spec /\ WF_vars(Next)

(***************************************************************************)
(* The sync loop in an environment that may make any operation fail with   *)
(* OSError (permissions, a vanished entry, a full disk): the same steps,   *)
(* each iteration hit by at most one fault.                                *)
(***************************************************************************)
Faults == {"getsize", "open", "listdir", "remove", "makedirs", "copy", "rmtree"}

\* Its initial trees use two of the names and hold at most MaxEntries + 1
\* entries together.
FaultNames == {"a", "s"}
FaultTrees ==
    {t \in Trees : \A p \in DOMAIN t : \A i \in 1..Len(p) : p[i] \in FaultNames \cup {"/"}}

FaultInit ==
    /\ roots = PlainRoots
    /\ \E s \in FaultTrees, b \in FaultTrees :
          /\ Cardinality(DOMAIN s) + Cardinality(DOMAIN b) <= MaxEntries + 1
          /\ fs = MkFs(s, b)
    /\ pc = "check"
    /\ equal = FALSE
    /\ source_dirs = {} /\ source_files = {}
    /\ backup_dirs = {} /\ backup_files = {}
    /\ done = {}
    /\ status = [files |-> TRUE, dirs |-> TRUE]
    /\ runs = 0
    /\ mutated = FALSE
    /\ change = "none"
    /\ faults = Faults
    /\ injected = "none"
    /\ failed = [files |-> FALSE, dirs |-> FALSE]

SpecFaults == FaultInit /\ [][Next]_vars

(***************************************************************************)
(* The sync loop on roots given with a trailing separator, as a shell      *)
(* completes them ("/bs/").  main.get_args accepts any two directories     *)
(* and FolderSync keeps the strings as given.  The backup root has no      *)
(* trailing separator, so every path handed to a mutating operation is     *)
(* resolved already.                                                       *)
(***************************************************************************)
RootPairs ==
    {[source |-> <<"/", "b", "s", "/">>, backup |-> <<"/", "b">>],
     [source |-> <<"/", "s", "/">>, backup |-> <<"/", "b">>]}

RootsInit ==
    /\ roots \in RootPairs
    /\ \E s \in Trees, b \in Trees : fs = MkFs(s, b)
    /\ pc = "check"
    /\ equal = FALSE
    /\ source_dirs = {} /\ source_files = {}
    /\ backup_dirs = {} /\ backup_files = {}
    /\ done = {}
    /\ status = [files |-> TRUE, dirs |-> TRUE]
    /\ runs = 0
    /\ mutated = FALSE
    /\ change = "none"
    /\ faults = {}
    /\ injected = "none"
    /\ failed = [files |-> FALSE, dirs |-> FALSE]

SpecRoots == RootsInit /\ [][Next]_vars

(***************************************************************************)
(* File comparison on its own: two regular files "/s/a" and "/b/a" with    *)
(* any bytes of at most MaxLen, compared by __compare_file_hashes.         *)
(***************************************************************************)
RECURSIVE SeqsUpTo(_)
SeqsUpTo(n) == IF n = 0 THEN {<<>>}
               ELSE SeqsUpTo(n - 1) \cup {Append(d, b) : d \in {e \in SeqsUpTo(n - 1) : Len(e) = n - 1}, b \in Bytes}

FileA == Join(source_folder, <<"a">>)
FileB == Join(backup_folder, <<"a">>)

FilesInit ==
    /\ roots = PlainRoots
    /\ \E d1 \in SeqsUpTo(MaxLen), d2 \in SeqsUpTo(MaxLen) :
          fs = MkFs(<<"/", "a">> :> File(d1), <<"/", "a">> :> File(d2))
    /\ pc = "compare_files"
    /\ equal = FALSE
    /\ source_dirs = {} /\ source_files = {}
    /\ backup_dirs = {} /\ backup_files = {}
    /\ done = {}
    /\ status = [files |-> TRUE, dirs |-> TRUE]
    /\ runs = 0
    /\ mutated = FALSE
    /\ change = "none"
    /\ faults = {}
    /\ injected = "none"
    /\ failed = [files |-> FALSE, dirs |-> FALSE]

CompareFiles ==
    /\ pc = "compare_files"
    /\ equal' = CompareFileHashes(fs, FileA, FileB)
    /\ pc' = "files_compared"
    /\ UNCHANGED <<fs, source_dirs, source_files, backup_dirs, backup_files,
                   done, status, runs, mutated, change, roots, faults, injected, failed>>

FilesNext == CompareFiles

SpecFiles == FilesInit /\ [][FilesNext]_vars

\* The same comparison in an environment that may make getsize, open or
\* read fail.
FilesIOInit ==
    /\ roots = PlainRoots
    /\ \E d1 \in SeqsUpTo(MaxLen), d2 \in SeqsUpTo(MaxLen) :
          fs = MkFs(<<"/", "a">> :> File(d1), <<"/", "a">> :> File(d2))
    /\ pc = "compare_files"
    /\ equal = FALSE
    /\ source_dirs = {} /\ source_files = {}
    /\ backup_dirs = {} /\ backup_files = {}
    /\ done = {}
    /\ status = [files |-> TRUE, dirs |-> TRUE]
    /\ runs = 0
    /\ mutated = FALSE
    /\ change = "none"
    /\ faults = {"getsize", "open"}
    /\ injected = "none"
    /\ failed = [files |-> FALSE, dirs |-> FALSE]

CompareFilesIO ==
    /\ pc = "compare_files"
    /\ \E flt \in FaultsOf({"getsize", "open", "listdir"}) :
          \E c \in {CompareFileHashesIO(fs, FileA, FileB, flt)} :
              /\ equal' = c.value
              /\ injected' = flt
              /\ pc' = IF c.raised THEN "crashed" ELSE "files_compared"
    /\ UNCHANGED <<fs, source_dirs, source_files, backup_dirs, backup_files,
                   done, status, runs, mutated, change, roots, faults, failed>>

FilesIONext == CompareFilesIO

SpecFilesIO == FilesIOInit /\ [][FilesIONext]_vars

(***************************************************************************)
(* Tree comparison on its own: a tree under the source root and, under     *)
(* the backup root, its copy with at most one change, compared by          *)
(* __compare_folder_hashes.                                                *)
(***************************************************************************)
\* Bytes an altered file may hold: the other content of the same length,
\* and contents of other lengths.
AlteredContents == Contents \cup {<<>>, <<0, 1, 1>>}

\* An entry may be added at p: p is new and its parent is a directory.
CanAdd(t, p) ==
    /\ p \notin DOMAIN t
    /\ Len(p) > 2 => (Dirname(p) \in DOMAIN t /\ t[Dirname(p)].kind = "dir")

\* The copies of t that differ from it by one change, with the change's kind.
Changes(t) ==
    {[kind |-> IF t[p].kind = "file" THEN "file_removed" ELSE "dir_removed",
      tree |-> Rmtree(t, p)] : p \in DOMAIN t}
    \cup UNION {{[kind |-> "content_altered", tree |-> [t EXCEPT ![p] = File(c)]] :
                    c \in {d \in AlteredContents : d # t[p].data}} :
                p \in {q \in DOMAIN t : t[q].kind = "file"}}
    \cup UNION {{[kind |-> "entry_added", tree |-> (p :> n) @@ t] : n \in Nodes} :
                p \in {q \in RelPaths : CanAdd(t, q)}}
    \cup UNION {{[kind |-> "kind_replaced", tree |-> (p :> n) @@ Rmtree(t, p)] :
                    n \in {m \in Nodes : m.kind # t[p].kind}} :
                p \in DOMAIN t}

TreesInit ==
    /\ roots = PlainRoots
    /\ \E t \in Trees :
          \E c \in Changes(t) \cup {[kind |-> "none", tree |-> t]} :
              fs = MkFs(t, c.tree) /\ change = c.kind
    /\ pc = "compare_trees"
    /\ equal = FALSE
    /\ source_dirs = {} /\ source_files = {}
    /\ backup_dirs = {} /\ backup_files = {}
    /\ done = {}
    /\ status = [files |-> TRUE, dirs |-> TRUE]
    /\ runs = 0
    /\ mutated = FALSE
    /\ faults = {}
    /\ injected = "none"
    /\ failed = [files |-> FALSE, dirs |-> FALSE]

CompareTrees ==
    /\ pc = "compare_trees"
    /\ equal' = CompareFolderHashes(fs, source_folder, backup_folder)
    /\ pc' = "trees_compared"
    /\ UNCHANGED <<fs, source_dirs, source_files, backup_dirs, backup_files,
                   done, status, runs, mutated, change, roots, faults, injected, failed>>

TreesNext == CompareTrees

SpecTrees == TreesInit /\ [][TreesNext]_vars

(***************************************************************************)
(* Vocabulary of the properties.                                           *)
(***************************************************************************)
\* The path with the same relative part under the other root.
MirrorInBackup(p) == backup_folder \o SubSeq(p, Len(source_folder) + 1, Len(p))
MirrorInSource(p) == source_folder \o SubSeq(p, Len(backup_folder) + 1, Len(p))

\* A reconciliation pass has just returned.
PassFinished == pc = "check" /\ runs >= 1

\* The backup tree has exactly the entries of the source tree, with the
\* same kinds and bytes.
TreesIdentical ==
    /\ \A p \in DOMAIN fs : Below(source_folder, p) =>
           (MirrorInBackup(p) \in DOMAIN fs /\ fs[MirrorInBackup(p)] = fs[p])
    /\ \A p \in DOMAIN fs : Below(backup_folder, p) => MirrorInSource(p) \in DOMAIN fs

\* One fault-free iteration of the named loop on entry x, from the result r
\* of the iterations before it: the filesystem and the status so far.
StepOn(loop, r, x) ==
    CHOOSE n \in {[fs |-> m.fs, ok |-> r.ok /\ m.ok] :
                     m \in {CASE loop = "source_files" -> SyncSourceFileStep(r.fs, x, "none")
                              [] loop = "backup_files" -> RemoveBackupFileStep(r.fs, x, "none")
                              [] loop = "source_dirs" -> MakeSourceDirStep(r.fs, x, "none")
                              [] loop = "backup_dirs" -> RemoveBackupDirStep(r.fs, x, "none")}} : TRUE

\* The results the named loop can end with when it starts from a result
\* of rs and takes the entries of todo in any order.
RECURSIVE Outcomes(_, _, _)
Outcomes(loop, rs, todo) ==
    IF todo = {} THEN rs
    ELSE UNION {Outcomes(loop, {StepOn(loop, r, x) : r \in rs}, todo \ {x}) : x \in todo}

(***************************************************************************)
(* C1: after a pass, every source file has a byte-identical regular file   *)
(* at the corresponding backup path, whatever the backup held before.      *)
(***************************************************************************)
C1_SourceFilesMirrored ==
    PassFinished =>
        \A p \in WalkFiles(fs, source_folder) :
            IsFile(fs, MirrorInBackup(p)) /\ fs[MirrorInBackup(p)].data = fs[p].data

(***************************************************************************)
(* C2: after a pass, no file of the backup enumeration whose corresponding *)
(* source path is not a regular file still exists in backup.               *)
(***************************************************************************)
C2_OrphanFilesRemoved ==
    PassFinished =>
        \A p \in backup_files : ~IsFile(fs, MirrorInSource(p)) => ~IsFile(fs, p)

(***************************************************************************)
(* C3: after a pass, every empty source directory that had no backup       *)
(* counterpart directory when the pass began has an empty backup           *)
(* directory as its counterpart.                                           *)
(***************************************************************************)
C3_EmptyDirsCreated ==
    PassFinished =>
        \A d \in source_dirs :
            (ListDir(fs, d) = {} /\ MirrorInBackup(d) \notin backup_dirs) =>
                (IsDir(fs, MirrorInBackup(d)) /\ ListDir(fs, MirrorInBackup(d)) = {})

(***************************************************************************)
(* C4: a second consecutive run of __start_sync changes nothing.           *)
(***************************************************************************)
C4_SecondRunIdle == runs >= 2 => ~mutated

(***************************************************************************)
(* C5: directly after one pass the tree-equality check on the two roots    *)
(* returns true.                                                           *)
(***************************************************************************)
C5_EqualAfterOnePass ==
    PassFinished => CompareFolderHashes(fs, source_folder, backup_folder)

(***************************************************************************)
(* C6: the loop eventually stays with a successful check and a backup      *)
(* tree identical to the source tree.                                      *)
(***************************************************************************)
C6_Converges == <>[](equal /\ TreesIdentical)

(***************************************************************************)
(* C7: the loop sleeps only directly after a check that returned true,     *)
(* starts a pass only directly after a check that returned false, returns  *)
(* from every pass straight to the check, and never changes the            *)
(* filesystem while the last check found the trees equal.                  *)
(***************************************************************************)
C7_LoopDiscipline ==
    [][/\ (pc' = "sleep" /\ pc # "sleep") =>
              (pc = "check" /\ CompareFolderHashes(fs, source_folder, backup_folder))
       /\ (pc' = "start" /\ pc # "start") =>
              (pc = "check" /\ ~CompareFolderHashes(fs, source_folder, backup_folder))
       /\ (pc' = "source_files" /\ pc # "source_files") => pc = "start"
       /\ (pc = "backup_dirs" /\ pc' # "backup_dirs") => pc' = "check"
       /\ fs' # fs => ~equal]_vars

\* The loop sleeps after a pass and the check that followed it.
C7_Witness == pc = "sleep" /\ runs >= 1 /\ mutated

(***************************************************************************)
(* C8: on two regular files, __compare_file_hashes returns true exactly    *)
(* when the files hold the same bytes.                                     *)
(***************************************************************************)
C8_FilesEqualIffSameBytes ==
    pc = "files_compared" => (equal <=> fs[FileA].data = fs[FileB].data)

\* Two files of several whole chunks that differ in the last byte only were
\* found unequal.
C8_Witness ==
    /\ pc = "files_compared" /\ ~equal
    /\ Len(fs[FileA].data) = Len(fs[FileB].data)
    /\ Len(fs[FileA].data) = 2 * ChunkSize
    /\ SubSeq(fs[FileA].data, 1, 2 * ChunkSize - 1) = SubSeq(fs[FileB].data, 1, 2 * ChunkSize - 1)

(***************************************************************************)
(* C9: __compare_folder_hashes returns true for a tree and its identical   *)
(* copy, and false for a copy that differs by one change at any depth.     *)
(***************************************************************************)
C9_TreeEqualIffUnchanged ==
    pc = "trees_compared" => (equal <=> change = "none")

\* A copy whose only difference is the bytes of a file in a subdirectory
\* was found unequal.
C9_Witness ==
    /\ pc = "trees_compared" /\ ~equal /\ change = "content_altered"
    /\ \E p \in WalkFiles(fs, source_folder) :
          /\ Dirname(p) # source_folder
          /\ IsFile(fs, MirrorInBackup(p))
          /\ Len(fs[MirrorInBackup(p)].data) = Len(fs[p].data)
          /\ fs[MirrorInBackup(p)].data # fs[p].data

(***************************************************************************)
(* C10: the counterpart the reconciler computes for an enumerated path is  *)
(* the same relative path under the other root, and distinct source paths  *)
(* get distinct backup paths.                                              *)
(***************************************************************************)
C10_PrefixReplacement ==
    /\ \A p \in source_files \cup source_dirs : BackupPath(p) = MirrorInBackup(p)
    /\ \A p \in backup_files \cup backup_dirs : SourcePath(p) = MirrorInSource(p)
    /\ \A p, q \in source_files \cup source_dirs :
           p # q => BackupPath(p) # BackupPath(q)

(***************************************************************************)
(* C11: the outcome of a phase is true only if every operation attempted   *)
(* in that phase succeeded: any copy, any directory creation (a parent's   *)
(* or an empty directory's), any file removal (the removal before a copy   *)
(* included) and any recursive removal.                                    *)
(***************************************************************************)
C11_OutcomeTrueOnlyIfAllSucceeded ==
    /\ status.files => ~failed.files
    /\ status.dirs => ~failed.dirs

(***************************************************************************)
(* C12: a failing operation never halts a pass.  No exception leaves a     *)
(* loop, entries once processed stay processed, every loop is left only    *)
(* when all entries of its set were processed, and it is left for the      *)
(* next loop: the directory phase runs after a failing file phase.         *)
(***************************************************************************)
InPass == pc \in {"source_files", "backup_files", "source_dirs", "backup_dirs"}

C13_ReadErrorMeansUnequal ==
    (pc # "compare_files" /\ injected = "open") => (pc = "files_compared" /\ ~equal)

\* Two files of the same non-empty bytes were reported unequal because
\* opening or reading one of them failed.
C13_Witness ==
    /\ pc = "files_compared" /\ injected = "open" /\ ~equal
    /\ fs[FileA].data = fs[FileB].data /\ Len(fs[FileA].data) > ChunkSize

(***************************************************************************)
(* C14: sync() has no fatal-error path: no I/O error during the            *)
(* tree-equality check (listing an unreadable or vanished directory        *)
(* included) or during a pass ends the loop.                               *)
(***************************************************************************)
C14_NoFatalErrorPath == pc # "crashed"

(***************************************************************************)
(* C15: the removal of orphan directories does not depend on the order of  *)
(* iteration: every order leaves the same tree and status; a directory     *)
(* that went with an ancestor removed earlier is skipped without a         *)
(* removal and without clearing status; and after the directory phase no   *)
(* backup directory without a source counterpart directory remains.        *)
(***************************************************************************)
C15_AnyOrderSameResult ==
    (pc = "backup_dirs" /\ done = {}) =>
        Cardinality(Outcomes("backup_dirs", {[fs |-> fs, ok |-> TRUE]}, backup_dirs)) = 1

C15_GoneDirSkipped ==
    pc = "backup_dirs" =>
        \A d \in backup_dirs \ done :
            ~IsDir(fs, d) => RemoveBackupDirStep(fs, d, "none") = Kept(fs)

C15_NoOrphanDirLeft ==
    PassFinished =>
        \A d \in WalkDirs(fs, backup_folder) : IsDir(fs, MirrorInSource(d))

C15_OrphanDirsRemoved ==
    C15_AnyOrderSameResult /\ C15_GoneDirSkipped /\ C15_NoOrphanDirLeft

(***************************************************************************)
(* C16: within the file phase the copy loop and the deletion loop          *)
(* commute: the copy loop first or the deletion loop first, each set       *)
(* taken in any order, all end with the same backup tree and the same      *)
(* phase outcome.                                                          *)
(***************************************************************************)
\* The results of the file phase from the current state, copy loop first.
CopyThenDelete ==
    Outcomes("backup_files",
             Outcomes("source_files", {[fs |-> fs, ok |-> TRUE]}, source_files),
             backup_files)

\* The same with the deletion loop first.
DeleteThenCopy ==
    Outcomes("source_files",
             Outcomes("backup_files", {[fs |-> fs, ok |-> TRUE]}, backup_files),
             source_files)

C16_FileLoopsCommute ==
    (pc = "source_files" /\ done = {}) =>
        Cardinality(CopyThenDelete \cup DeleteThenCopy) = 1

\* The narrower statement: in the order of the code (copy loop, then
\* deletion loop) the iteration order of the two sets does not matter.
C16_CodeOrderAnyIteration ==
    (pc = "source_files" /\ done = {}) => Cardinality(CopyThenDelete) = 1

(***************************************************************************)
(* C17: when reading a size fails and the size test is skipped, two files  *)
(* of different length of which the shorter is a prefix of the longer are  *)
(* reported equal (the pairing of chunks stops with the shorter file).     *)
(***************************************************************************)
\* The comparison ran on two files of different length without the size test.
SizeTestSkipped ==
    /\ pc = "files_compared" /\ injected = "getsize"
    /\ Len(fs[FileA].data) # Len(fs[FileB].data)

\* The bytes of the shorter and of the longer of the two files.
Shorter ==
    IF Len(fs[FileA].data) <= Len(fs[FileB].data) THEN fs[FileA].data ELSE fs[FileB].data
Longer ==
    IF Len(fs[FileA].data) <= Len(fs[FileB].data) THEN fs[FileB].data ELSE fs[FileA].data

C17_PrefixReportedEqual ==
    (SizeTestSkipped /\ IsPrefix(Shorter, Longer)) => equal

\* As amended: they are reported equal exactly when, in addition, the
\* shorter file ends on a chunk boundary; a shorter file that ends inside
\* a chunk makes the last paired chunks differ.
C17_AlignedPrefixReportedEqual ==
    SizeTestSkipped => (equal <=> (IsPrefix(Shorter, Longer) /\ Len(Shorter) % ChunkSize = 0))

\* A file of one whole chunk or more and a longer file that begins with it
\* were reported equal.
C17_Witness ==
    SizeTestSkipped /\ equal /\ Len(Shorter) >= ChunkSize

(***************************************************************************)
(* C18: the file phase leaves alone what is already correct.  No step of   *)
(* it deletes or rewrites a backup file that __compare_file_hashes finds   *)
(* equal to its source file, and no step of the deletion loop removes a    *)
(* backup file whose corresponding source path is a regular file.          *)
(***************************************************************************)
EqualFileKept ==
    (pc = "source_files" \/ pc = "backup_files") =>
        \A p \in WalkFiles(fs, backup_folder) :
            CompareFileHashes(fs, MirrorInSource(p), p) =>
                (IsFile(fs', p) /\ fs'[p] = fs[p])

WantedFileKept ==
    pc = "backup_files" =>
        \A p \in WalkFiles(fs, backup_folder) :
            IsFile(fs, MirrorInSource(p)) => IsFile(fs', p)

C18_FilePhaseFrame == [][EqualFileKept /\ WantedFileKept]_vars

(***************************************************************************)
(* C19: the source tree is never mutated.  No step of the loop creates,    *)
(* rewrites or removes a path under the source root (every such path lies  *)
(* under the backup root), so the source tree stays what it was initially. *)
(***************************************************************************)
\* The paths whose entry differs between this state and the next.
ChangedPaths ==
    {p \in DOMAIN fs \cup DOMAIN fs' :
        p \notin DOMAIN fs \/ p \notin DOMAIN fs' \/ fs[p] # fs'[p]}

\* Every change is made under the backup root.
C19_OnlyBackupChanged ==
    [][\A p \in ChangedPaths : Below(Norm(backup_folder), p)]_vars

C19_SourceNeverMutated ==
    [][\A p \in ChangedPaths : ~Below(Norm(source_folder), p)]_vars

====
